---- MODULE Spec2Model ----
(***************************************************************************)
(* Model of the dialectical debate framework: run_experiment               *)
(* (run_experiments.py) driving DebateOrchestrator.run_debate              *)
(* (orchestrator.py) over a dataset of QueryContexts.  run_debate is cut    *)
(* at its persona calls: one action per loop iteration of the Thesis and   *)
(* Rebuttal loops, one for the Challenger call, one for the Judge call.    *)
(***************************************************************************)
EXTENDS Naturals, Integers, Sequences, FiniteSets, TLC

VARIABLES
    pc,                 \* position of the batch runner
    api_key,            \* OPENROUTER_API_KEY is set in the environment
    input_exists,       \* the prepared dataset file exists
    agents_ok,          \* the agents can be constructed
    mocked,             \* the persona calls are a fixed function of the prompt
    memo,               \* mocked personas: the prompts answered so far
    dataset,            \* the loaded QueryContexts, in file order
    files,              \* files created by the run
    out,                \* lines written to the results file
    k,                  \* index of the QueryContext being processed
    dpc,                \* position inside run_debate
    i,                  \* loop index of the Thesis / Rebuttal loop (1-based seat)
    opening_statements, \* local of run_debate
    challenges,         \* local of run_debate
    rebuttals,          \* local of run_debate
    debate_transcript,  \* local of run_debate
    calls,              \* per QueryContext: the persona calls issued, in order
    results,            \* per QueryContext: how run_debate ended
    system_message      \* the constitution bound to the orchestrator's Judge

vars == <<pc, api_key, input_exists, agents_ok, mocked, memo, dataset, files, out,
          k, dpc, i, opening_statements, challenges, rebuttals,
          debate_transcript, calls, results, system_message>>

----------------------------------------------------------------------------
\* Bounds of the model.
MaxDocs == 2
MaxItems == 2
MaxWork == 3

----------------------------------------------------------------------------
\* JSON values.  A value is [t, e]: t its type, e its entries <<key, tag, items>>
\* (an object's members in order; a list's or a string's items under key "").
Obj(entries) == [t |-> "obj", e |-> entries]
Lst(entries) == [t |-> "list", e |-> entries]
Str(s) == [t |-> "str", e |-> << <<"", "str", <<s>>>> >>]
Num == [t |-> "num", e |-> <<>>]
Null == [t |-> "null", e |-> <<>>]
Absent == [t |-> "absent", e |-> <<>>]
EmptyObj == Obj(<<>>)

\* Response texts of the personas.
P_OK == "{\"answer\": \"1963\", \"chain_of_thought\": [\"born 1963\"]}"
P_NOFIELDS == "{\"note\": \"cannot tell\"}"
P_BAD == "Sure! The answer is 1963."
C_BOTH == "{\"agent_1_challenge\": \"why 1963?\", \"agent_2_challenge\": \"why 1956?\"}"
C_2_3 == "{\"agent_2_challenge\": \"why 1956?\", \"agent_3_challenge\": \"why 1998?\"}"
C_LIST == "[]"
C_STR == "\"agent_1_challenge\""
C_NUM == "42"
C_BAD == "I challenge agent_1."
J_OK == "{\"final_answer\": \"1963 and 1956\"}"
J_NULL == "null"
J_EMPTY == "{}"
J_BAD == "The answer is 1963."

ProponentTexts == {P_OK, P_NOFIELDS, P_BAD}
ChallengerTexts == {C_BOTH, C_2_3, C_LIST, C_STR, C_NUM, C_BAD}
JudgeTexts == {J_OK, J_NULL, J_EMPTY, J_BAD}

\* A persona call that raises instead of returning text.
Raises == "<exception>"
CallFailed == "persona call failed"

\* json.loads: [ok, v]; ok = FALSE stands for json.JSONDecodeError.
json_loads(s) ==
    CASE s = P_OK -> [ok |-> TRUE, v |-> Obj(<< <<"answer", "str", <<"1963">>>>,
                                               <<"chain_of_thought", "list", <<"born 1963">>>> >>)]
      [] s = P_NOFIELDS -> [ok |-> TRUE, v |-> Obj(<< <<"note", "str", <<"cannot tell">>>> >>)]
      [] s = C_BOTH -> [ok |-> TRUE, v |-> Obj(<< <<"agent_1_challenge", "str", <<"why 1963?">>>>,
                                                 <<"agent_2_challenge", "str", <<"why 1956?">>>> >>)]
      [] s = C_2_3 -> [ok |-> TRUE, v |-> Obj(<< <<"agent_2_challenge", "str", <<"why 1956?">>>>,
                                                <<"agent_3_challenge", "str", <<"why 1998?">>>> >>)]
      [] s = C_LIST -> [ok |-> TRUE, v |-> Lst(<<>>)]
      [] s = C_STR -> [ok |-> TRUE, v |-> Str("agent_1_challenge")]
      [] s = C_NUM -> [ok |-> TRUE, v |-> Num]
      [] s = J_OK -> [ok |-> TRUE, v |-> Obj(<< <<"final_answer", "str", <<"1963 and 1956">>>> >>)]
      [] s = J_NULL -> [ok |-> TRUE, v |-> Null]
      [] s = J_EMPTY -> [ok |-> TRUE, v |-> Obj(<<>>)]
      [] OTHER -> [ok |-> FALSE, v |-> Absent]

\* The keys of a JSON object (none for any other value).
JsonKeys(v) == IF v.t = "obj" THEN {v.e[n][1] : n \in 1..Len(v.e)} ELSE {}

\* Python's `key in v`: [ok, has]; ok = FALSE stands for the TypeError of a
\* value that is not a container.  A string is searched for the key as a
\* substring; the strings of this model either are a key or hold none.
Contains(v, key) ==
    CASE v.t = "obj" -> [ok |-> TRUE, has |-> key \in JsonKeys(v)]
      [] v.t \in {"list", "str"} ->
            [ok |-> TRUE, has |-> \E n \in 1..Len(v.e) : v.e[n][3] = <<key>>]
      [] OTHER -> [ok |-> FALSE, has |-> FALSE]

\* Python's v[key] for a string key: [ok, items]; ok = FALSE stands for the
\* TypeError of indexing a list or a string with a string.
GetItem(v, key) ==
    IF v.t = "obj" /\ key \in JsonKeys(v)
    THEN [ok |-> TRUE,
          items |-> v.e[CHOOSE n \in 1..Len(v.e) : v.e[n][1] = key][3]]
    ELSE [ok |-> FALSE, items |-> <<>>]

NotIterable == "argument of type is not iterable"
BadIndex == "indices must be integers"

----------------------------------------------------------------------------
\* Python dicts keep insertion order: a dict is a sequence of <<key, value>>.
DictKeys(d) == [n \in 1..Len(d) |-> d[n][1]]
DictHas(d, key) == \E n \in 1..Len(d) : d[n][1] = key
DictGet(d, key) == d[CHOOSE n \in 1..Len(d) : d[n][1] = key][2]
DictSet(d, key, v) ==
    IF DictHas(d, key)
    THEN [n \in 1..Len(d) |-> IF d[n][1] = key THEN <<key, v>> ELSE d[n]]
    ELSE Append(d, <<key, v>>)

\* Seat names agent_1, agent_2, ... and their challenge keys.
AgentNames == <<"agent_1", "agent_2", "agent_3", "agent_4">>
ChallengeKeys == <<"agent_1_challenge", "agent_2_challenge",
                   "agent_3_challenge", "agent_4_challenge">>
agent_name_fixed(n) == AgentNames[1]
agent_name(n) == AgentNames[n]
challenge_key_unsuffixed(n) == AgentNames[n]
challenge_key(n) == ChallengeKeys[n]

ParseErrorRecordNoRaw(raw) ==
    Obj(<< <<"answer", "str", <<"JSON PARSE ERROR">>>>,
           <<"chain_of_thought", "list", <<>>>> >>)

\* The sentinel record stored for a Proponent response that does not decode.
ParseErrorRecord(raw) ==
    Obj(<< <<"answer", "str", <<"JSON PARSE ERROR">>>>,
           <<"chain_of_thought", "list", <<raw>>>> >>)

\* What the Thesis and Rebuttal loops store for a response text.
ProponentRecord(raw) ==
    IF json_loads(raw).ok THEN json_loads(raw).v ELSE ParseErrorRecord(raw)

FinalAnswerRecordAsProponent(raw) == ProponentRecord(raw)

\* What Synthesis stores for the Judge's response text.
FinalAnswerRecord(raw) ==
    IF json_loads(raw).ok THEN json_loads(raw).v
    ELSE Obj(<< <<"final_answer", "str", <<raw>>>> >>)

----------------------------------------------------------------------------
\* The debate transcript: a dict whose keys are set in the order of `keys`.
EmptyTranscript ==
    [keys |-> <<>>, phase_1 |-> <<>>, phase_2a |-> Absent,
     phase_2b |-> <<>>, phase_3 |-> Absent]

HasKey(t, key) == \E n \in 1..Len(t.keys) : t.keys[n] = key
AddKey(keys, key) ==
    IF \E n \in 1..Len(keys) : keys[n] = key THEN keys ELSE Append(keys, key)

SetPhase1(t, os) ==
    [t EXCEPT !.keys = AddKey(@, "phase_1_opening_statements"), !.phase_1 = os]
SetPhase2a(t, ch) ==
    [t EXCEPT !.keys = AddKey(@, "phase_2a_challenges"), !.phase_2a = ch]
SetPhase2bForgotten(t, rb) == t
SetPhase2bOverPhase1(t, rb) ==
    [t EXCEPT !.keys = AddKey(@, "phase_2b_rebuttals"), !.phase_1 = rb]
SetPhase2b(t, rb) ==
    [t EXCEPT !.keys = AddKey(@, "phase_2b_rebuttals"), !.phase_2b = rb]
SetPhase3(t, fa) ==
    [t EXCEPT !.keys = AddKey(@, "phase_3_final_answer"), !.phase_3 = fa]

\* What run_debate returns: the transcript itself, or {error, transcript}.
ParseFailure == "Failed to parse Devil's Advocate challenges."
Completed(t) == [keys |-> t.keys, error |-> "", transcript |-> t]
Aborted(t) == [keys |-> <<"error", "transcript">>, error |-> ParseFailure,
               transcript |-> t]
NoReturn == [keys |-> <<>>, error |-> "", transcript |-> EmptyTranscript]

RetHas(r, key) == \E n \in 1..Len(r.keys) : r.keys[n] = key

----------------------------------------------------------------------------
\* QueryContexts.  Identifiers, questions and texts are opaque: numbers.
Doc(id) == [doc_id |-> id, text |-> id]
QC(id, docs) == [query_id |-> id, question |-> id, documents |-> docs]

\* The QueryContext at position n of a dataset of distinct items: its id is
\* n and its m documents are n1, n2, ... (all different across the dataset).
DistinctQC(n, m) == QC(n, [j \in 1..m |-> Doc(10 * n + j)])

RECURSIVE Work(_)
Work(shape) ==
    IF shape = <<>> THEN 0 ELSE 1 + Head(shape) + Work(Tail(shape))

Shapes ==
    {sh \in UNION {[1..n -> 0..MaxDocs] : n \in 0..MaxItems} : Work(sh) <= MaxWork}

Datasets == {[n \in 1..Len(sh) |-> DistinctQC(n, sh[n])] : sh \in Shapes}

\* Datasets that hold the same QueryContext one or more times; its documents
\* may repeat.
DocSeqs == UNION {[1..m -> {Doc(1), Doc(2)}] : m \in 0..MaxDocs}
RepeatedDatasets ==
    {[n \in 1..r |-> QC(1, ds)] : r \in 1..MaxItems, ds \in DocSeqs}

\* Datasets of one QueryContext whose documents may share a doc_id or a
\* text with one another.
SharedDocs ==
    {[doc_id |-> 1, text |-> 1], [doc_id |-> 1, text |-> 2],
     [doc_id |-> 2, text |-> 1]}
SharedDatasets ==
    {<<QC(1, ds)>> : ds \in UNION {[1..m -> SharedDocs] : m \in 1..MaxDocs}}

----------------------------------------------------------------------------
\* Prompts, by what they are built from.
Prompt(kind, qc, docs, seat, os, st, ch, tr) ==
    [kind |-> kind, question |-> qc.question, docs |-> docs, seat |-> seat,
     os |-> os, st |-> st, ch |-> ch, tr |-> tr]

ThesisPromptWithHistory(qc, n) ==
    Prompt("thesis", qc, <<qc.documents[n]>>, 0, opening_statements, Absent, <<>>,
           EmptyTranscript)

\* orchestrator.py 62-70: the query and the single document.
ThesisPrompt(qc, n) ==
    Prompt("thesis", qc, <<qc.documents[n]>>, 0, <<>>, Absent, <<>>, EmptyTranscript)

ChallengePromptNoDocs(qc, os) ==
    Prompt("challenge", qc, <<>>, 0, os, Absent, <<>>, EmptyTranscript)

\* orchestrator.py 85-96: the query, all opening statements, all documents.
ChallengePrompt(qc, os) ==
    Prompt("challenge", qc, qc.documents, 0, os, Absent, <<>>, EmptyTranscript)

RebuttalPromptByDocId(qc, n, os, ch) ==
    LET first == CHOOSE j \in 1..n :
                    /\ qc.documents[j].doc_id = qc.documents[n].doc_id
                    /\ \A h \in 1..(j - 1) :
                            qc.documents[h].doc_id # qc.documents[n].doc_id
    IN  Prompt("rebuttal", qc, <<qc.documents[first]>>, first, <<>>,
               IF DictHas(os, agent_name(first)) THEN DictGet(os, agent_name(first))
               ELSE EmptyObj,
               GetItem(ch, challenge_key(first)).items, EmptyTranscript)

\* orchestrator.py 117-134: the seat's name, document, opening statement
\* and challenge.
RebuttalPrompt(qc, n, os, ch) ==
    Prompt("rebuttal", qc, <<qc.documents[n]>>, n, <<>>,
           IF DictHas(os, agent_name(n)) THEN DictGet(os, agent_name(n)) ELSE EmptyObj,
           GetItem(ch, challenge_key(n)).items, EmptyTranscript)

\* orchestrator.py 148-157: the query and the transcript so far.
FinalPrompt(qc, tr) ==
    Prompt("final", qc, <<>>, 0, <<>>, Absent, <<>>, tr)

\* A persona call as logged: who was asked what in which phase, and the answer.
Call(role, phase, seat, prompt, resp) ==
    [role |-> role, phase |-> phase, seat |-> seat, prompt |-> prompt,
     resp |-> resp]

\* _execute_single_turn_chat: the persona answers `r` to `prompt`, or raises
\* (r = Raises).  A mocked persona answers a prompt the way it did before.
Answers(prompt, r) ==
    mocked => \A m \in memo : m.p = prompt => m.r = r
Remember(prompt, r) ==
    IF mocked THEN memo \cup {[p |-> prompt, r |-> r]} ELSE memo

----------------------------------------------------------------------------
\* The constitution of the Aggregator_Judge in the module the orchestrator
\* imports, by the rules it lists (agent_definitions.py 96-109).
JudgeConstitution ==
    {"produce the single most likely correct and conclusive final answer",
     "prioritize defended arguments",
     "resolve conflicts, do not just report them",
     "be concise and conclusive",
     "output format"}

\* The constitution of the Aggregator_Judge in agent_definations.py (71-86),
\* a module that nothing imports.
JudgeConstitutionNotImported ==
    {"produce the most logically sound and complete final answer",
     "synthesize, don't vote",
     "prioritize defended arguments",
     "protect valid minority opinions",
     "be coherent and final",
     "output format"}

\* No orchestrator has been constructed yet.
NotBound == {}

----------------------------------------------------------------------------
N == Len(dataset[k].documents)
qctx == dataset[k]

NoResult == [st |-> "none", ret |-> NoReturn, msg |-> ""]
Returned(ret) == [st |-> "returned", ret |-> ret, msg |-> ""]
Raised(msg) == [st |-> "raised", ret |-> NoReturn, msg |-> msg]

\* run_experiments.py 68-75 and 83-86: the line written for a QueryContext.
ResultLine(qc, ret) ==
    [kind |-> "result", query_id |-> qc.query_id, question |-> qc.question,
     final_answer_object |->
        IF RetHas(ret, "phase_3_final_answer") THEN ret.transcript.phase_3 ELSE EmptyObj,
     full_debate_transcript |-> ret, error |-> ""]
ErrorLine(qc, msg) ==
    [kind |-> "error", query_id |-> qc.query_id, question |-> 0,
     final_answer_object |-> Absent, full_debate_transcript |-> NoReturn,
     error |-> msg]

\* run_debate returns `ret` to run_experiment, which writes the result line
\* and goes on to the next QueryContext (run_experiments.py 65-78).
Return(ret) ==
    /\ results' = [results EXCEPT ![k] = Returned(ret)]
    /\ out' = Append(out, ResultLine(qctx, ret))
    /\ k' = k + 1
    /\ dpc' = "idle"

RaiseStops(msg) ==
    /\ results' = [results EXCEPT ![k] = Raised(msg)]
    /\ out' = Append(out, ErrorLine(qctx, msg))
    /\ k' = Len(dataset) + 1
    /\ dpc' = "idle"

RaiseCaught(msg) ==
    /\ results' = [results EXCEPT ![k] = Returned(Aborted(debate_transcript))]
    /\ out' = Append(out, ResultLine(qctx, Aborted(debate_transcript)))
    /\ k' = k + 1
    /\ dpc' = "idle"

\* run_debate raises; run_experiment writes the error line and goes on
\* (run_experiments.py 80-88).
Raise(msg) ==
    /\ results' = [results EXCEPT ![k] = Raised(msg)]
    /\ out' = Append(out, ErrorLine(qctx, msg))
    /\ k' = k + 1
    /\ dpc' = "idle"

Env == <<api_key, input_exists, agents_ok, mocked, dataset>>
Locals == <<i, opening_statements, challenges, rebuttals, debate_transcript>>

----------------------------------------------------------------------------
InitCommon ==
    /\ pc = "import"
    /\ api_key \in BOOLEAN
    /\ input_exists \in BOOLEAN
    /\ agents_ok \in BOOLEAN
    /\ memo = {}
    /\ system_message = NotBound
    /\ files = {}
    /\ out = <<>>
    /\ k = 1
    /\ dpc = "idle"
    /\ i = 1
    /\ opening_statements = <<>>
    /\ challenges = Absent
    /\ rebuttals = <<>>
    /\ debate_transcript = EmptyTranscript
    /\ calls = [n \in 1..Len(dataset) |-> <<>>]
    /\ results = [n \in 1..Len(dataset) |-> NoResult]

Init ==
    /\ mocked = FALSE
    /\ dataset \in Datasets
    /\ InitCommon

InitShared ==
    /\ mocked = FALSE
    /\ dataset \in SharedDatasets
    /\ InitCommon

InitMocked ==
    /\ mocked = TRUE
    /\ dataset \in RepeatedDatasets
    /\ InitCommon

----------------------------------------------------------------------------
KeptTranscript == debate_transcript

\* orchestrator.py 55: run_debate starts from an empty transcript.
NewTranscript == EmptyTranscript

LoopDoneEarly(n, len) == n >= len

\* The for loops over enumerate(documents) end after the last document.
LoopDone(n, len) == n > len

DecodeFailedIgnored(raw) == FALSE

DecodeFailedOrSentinel(raw) ==
    \/ ~json_loads(raw).ok
    \/ \E n \in 1..Len(opening_statements) :
            opening_statements[n][2] \notin {json_loads(t).v : t \in ProponentTexts}

\* orchestrator.py 99-103: the Challenger's text did not decode.
DecodeFailed(raw) == ~json_loads(raw).ok

\* run_experiments.py 10 -> orchestrator.py 7 -> agent_definitions.py 19-21:
\* importing the modules raises ValueError when the API key is not set.
ImportModules ==
    /\ pc = "import"
    /\ pc' = IF api_key THEN "start" ELSE "crashed"
    /\ UNCHANGED <<Env, system_message, memo, files, out, k, dpc, Locals, calls, results>>

LoadDatasetAfterOpen ==
    /\ pc = "start"
    /\ files' = files \cup {"experiment_log", "results"}
    /\ pc' = IF input_exists THEN "init" ELSE "done"
    /\ UNCHANGED <<Env, system_message, memo, out, k, dpc, Locals, calls, results>>

\* run_experiments.py 23-47: create the log file, load the dataset; return
\* when the dataset file is missing.
LoadDataset ==
    /\ pc = "start"
    /\ files' = files \cup {"experiment_log"}
    /\ pc' = IF input_exists THEN "init" ELSE "done"
    /\ UNCHANGED <<Env, system_message, memo, out, k, dpc, Locals, calls, results>>

InitOrchestratorSwallows ==
    /\ pc = "init"
    /\ files' = files \cup {"results"}
    /\ pc' = "loop"
    /\ system_message' = IF agents_ok THEN JudgeConstitution ELSE NotBound
    /\ UNCHANGED <<Env, memo, out, k, dpc, Locals, calls, results>>

\* run_experiments.py 49-58: construct the orchestrator (return when that
\* fails) and open the results file for writing.
InitOrchestrator ==
    /\ pc = "init"
    /\ IF agents_ok
       THEN /\ system_message' = JudgeConstitution
            /\ files' = files \cup {"results"}
            /\ pc' = "loop"
       ELSE /\ pc' = "done"
            /\ UNCHANGED <<files, system_message>>
    /\ UNCHANGED <<Env, memo, out, k, dpc, Locals, calls, results>>

StartDebateKeepsLocals ==
    /\ pc = "loop" /\ dpc = "idle" /\ k <= Len(dataset)
    /\ dpc' = "thesis"
    /\ i' = 1
    /\ debate_transcript' = NewTranscript
    /\ challenges' = Absent
    /\ UNCHANGED <<pc, Env, system_message, memo, files, out, k, calls, results,
                   opening_statements, rebuttals>>

\* run_experiments.py 60-65 and orchestrator.py 55-59: run_debate is called
\* for the next QueryContext.
StartDebate ==
    /\ pc = "loop" /\ dpc = "idle" /\ k <= Len(dataset)
    /\ dpc' = "thesis"
    /\ i' = 1
    /\ debate_transcript' = NewTranscript
    /\ opening_statements' = <<>>
    /\ challenges' = Absent
    /\ rebuttals' = <<>>
    /\ UNCHANGED <<pc, Env, system_message, memo, files, out, k, calls, results>>

\* orchestrator.py 60-77: one iteration of the Thesis loop.
ThesisStep ==
    /\ pc = "loop" /\ dpc = "thesis" /\ ~LoopDone(i, N)
    /\ \E r \in ProponentTexts \cup {Raises} :
        LET prompt == ThesisPrompt(qctx, i) IN
        /\ Answers(prompt, r)
        /\ memo' = Remember(prompt, r)
        /\ calls' = [calls EXCEPT ![k] = Append(@, Call("proponent", "thesis", i, prompt, r))]
        /\ IF r = Raises
           THEN /\ Raise(CallFailed)
                /\ UNCHANGED Locals
           ELSE /\ opening_statements' =
                      DictSet(opening_statements, agent_name(i), ProponentRecord(r))
                /\ i' = i + 1
                /\ UNCHANGED <<out, k, dpc, results, challenges, rebuttals,
                               debate_transcript>>
    /\ UNCHANGED <<pc, Env, system_message, files>>

\* orchestrator.py 79-108: store the opening statements, call the
\* Challenger, abort when its text does not decode, else store the
\* challenges and enter the Rebuttal loop.
Antithesis ==
    /\ pc = "loop" /\ dpc = "thesis" /\ LoopDone(i, N)
    /\ \E r \in ChallengerTexts \cup {Raises} :
        LET t1 == SetPhase1(debate_transcript, opening_statements)
            prompt == ChallengePrompt(qctx, opening_statements) IN
        /\ Answers(prompt, r)
        /\ memo' = Remember(prompt, r)
        /\ calls' = [calls EXCEPT ![k] = Append(@, Call("challenger", "challenge", 0, prompt, r))]
        /\ IF r = Raises
           THEN /\ Raise(CallFailed)
                /\ debate_transcript' = t1
                /\ UNCHANGED <<i, opening_statements, challenges, rebuttals>>
           ELSE IF DecodeFailed(r)
           THEN /\ Return(Aborted(t1))
                /\ debate_transcript' = t1
                /\ UNCHANGED <<i, opening_statements, challenges, rebuttals>>
           ELSE /\ challenges' = json_loads(r).v
                /\ debate_transcript' = SetPhase2a(t1, json_loads(r).v)
                /\ rebuttals' = <<>>
                /\ i' = 1
                /\ dpc' = "rebuttal"
                /\ UNCHANGED <<out, k, results, opening_statements>>
    /\ UNCHANGED <<pc, Env, system_message, files>>

\* orchestrator.py 109-141: one iteration of the Rebuttal loop: skip the
\* seat when it has no challenge, else call the Proponent and store.
RebuttalStep ==
    /\ pc = "loop" /\ dpc = "rebuttal" /\ ~LoopDone(i, N)
    /\ LET c == Contains(challenges, challenge_key(i)) IN
       IF ~c.ok
       THEN /\ Raise(NotIterable)
            /\ UNCHANGED <<Locals, memo, calls>>
       ELSE IF ~c.has
       THEN /\ i' = i + 1
            /\ UNCHANGED <<out, k, dpc, results, opening_statements, challenges,
                           rebuttals, debate_transcript, memo, calls>>
       ELSE IF ~GetItem(challenges, challenge_key(i)).ok
       THEN /\ Raise(BadIndex)
            /\ UNCHANGED <<Locals, memo, calls>>
       ELSE \E r \in ProponentTexts \cup {Raises} :
            LET prompt == RebuttalPrompt(qctx, i, opening_statements, challenges) IN
            /\ Answers(prompt, r)
            /\ memo' = Remember(prompt, r)
            /\ calls' = [calls EXCEPT ![k] = Append(@, Call("proponent", "rebuttal", i, prompt, r))]
            /\ IF r = Raises
               THEN /\ Raise(CallFailed)
                    /\ UNCHANGED Locals
               ELSE /\ rebuttals' = DictSet(rebuttals, agent_name(i), ProponentRecord(r))
                    /\ i' = i + 1
                    /\ UNCHANGED <<out, k, dpc, results, opening_statements,
                                   challenges, debate_transcript>>
    /\ UNCHANGED <<pc, Env, system_message, files>>

\* orchestrator.py 143-169: store the rebuttals, call the Judge, store the
\* final answer and return the transcript.
Synthesis ==
    /\ pc = "loop" /\ dpc = "rebuttal" /\ LoopDone(i, N)
    /\ \E r \in JudgeTexts \cup {Raises} :
        LET t2 == SetPhase2b(debate_transcript, rebuttals)
            prompt == FinalPrompt(qctx, t2) IN
        /\ Answers(prompt, r)
        /\ memo' = Remember(prompt, r)
        /\ calls' = [calls EXCEPT ![k] = Append(@, Call("judge", "final", 0, prompt, r))]
        /\ IF r = Raises
           THEN /\ Raise(CallFailed)
                /\ debate_transcript' = t2
           ELSE /\ Return(Completed(SetPhase3(t2, FinalAnswerRecord(r))))
                /\ debate_transcript' = SetPhase3(t2, FinalAnswerRecord(r))
    /\ UNCHANGED <<pc, Env, system_message, files, i, opening_statements, challenges, rebuttals>>

\* run_experiments.py 90: the loop is over and the results file is closed.
Finish ==
    /\ pc = "loop" /\ dpc = "idle" /\ k > Len(dataset)
    /\ pc' = "done"
    /\ UNCHANGED <<Env, system_message, memo, files, out, k, dpc, Locals, calls, results>>

Next ==
    \/ ImportModules
    \/ LoadDataset
    \/ InitOrchestrator
    \/ StartDebate
    \/ ThesisStep
    \/ Antithesis
    \/ RebuttalStep
    \/ Synthesis
    \/ Finish

Spec == Init /\ [][Next]_vars
SpecMocked == InitMocked /\ [][Next]_vars
SpecShared == InitShared /\ [][Next]_vars

----------------------------------------------------------------------------
\* Vocabulary of the properties.
Items == 1..Len(dataset)
NDocs(n) == Len(dataset[n].documents)
Ended(n) == results[n].st # "none"
Ret(n) == results[n].ret
PhaseFields == <<"phase_1_opening_statements", "phase_2a_challenges",
                 "phase_2b_rebuttals", "phase_3_final_answer">>
IsCompleted(n) ==
    /\ results[n].st = "returned"
    /\ Ret(n).keys = PhaseFields
IsAborted(n) ==
    /\ results[n].st = "returned"
    /\ RetHas(Ret(n), "error")

CallsOf(n, phase) == {j \in 1..Len(calls[n]) : calls[n][j].phase = phase}
Decodes(raw) == raw # Raises /\ json_loads(raw).ok
IsMapping(raw) == Decodes(raw) /\ json_loads(raw).v.t = "obj"
Undecodable(raw) == raw # Raises /\ ~json_loads(raw).ok

\* The opening statements of QueryContext n, wherever the run has put them.
Phase1Known(n) ==
    \/ n = k /\ dpc # "idle" /\ HasKey(debate_transcript, "phase_1_opening_statements")
    \/ results[n].st = "returned"
Phase1(n) ==
    IF results[n].st = "returned" THEN Ret(n).transcript.phase_1
    ELSE debate_transcript.phase_1

\* C1: when every Proponent call and the Judge call of a debate returned
\* syntactically valid structured text and the Challenger returned a valid
\* mapping, the debate returns a transcript with all four phase fields and
\* no error field.
C1_AllValidCompletes ==
    \A n \in Items :
        ( /\ Ended(n)
          /\ \A j \in 1..Len(calls[n]) :
                IF calls[n][j].role = "challenger"
                THEN IsMapping(calls[n][j].resp)
                ELSE Decodes(calls[n][j].resp) )
        => /\ results[n].st = "returned"
           /\ \A f \in 1..Len(PhaseFields) : RetHas(Ret(n), PhaseFields[f])
           /\ ~RetHas(Ret(n), "error")
           /\ Ret(n).error = ""

C1_Witness ==
    \E n \in Items :
        /\ IsCompleted(n)
        /\ NDocs(n) = 2
        /\ Len(Ret(n).transcript.phase_2b) = 2
        /\ \A j \in 1..Len(calls[n]) :
                IF calls[n][j].role = "challenger"
                THEN IsMapping(calls[n][j].resp)
                ELSE Decodes(calls[n][j].resp)

\* C2 (as claimed): whenever the Challenger's response is not decodable as
\* a mapping, run_debate returns a result with error set, without
\* phase_2a_challenges, phase_2b_rebuttals and phase_3_final_answer, and
\* with phase_1_opening_statements as the Thesis phase produced it.
C2_AsClaimed ==
    \A n \in Items :
        ( /\ Ended(n)
          /\ \E j \in CallsOf(n, "challenge") :
                calls[n][j].resp # Raises /\ ~IsMapping(calls[n][j].resp) )
        => /\ IsAborted(n)
           /\ Ret(n).transcript.keys = <<"phase_1_opening_statements">>
           /\ Len(Ret(n).transcript.phase_1) = NDocs(n)
           /\ \A j \in 1..NDocs(n) :
                Ret(n).transcript.phase_1[j] =
                    <<AgentNames[j], ProponentRecord(calls[n][j].resp)>>

\* C3: once the Thesis phase has finished, phase_1_opening_statements has
\* exactly N entries, keyed agent_1 .. agent_N in document order, the entry
\* of agent_i made from the Proponent's answer about the document at
\* position i, whatever the Proponent returned.
Phase1Seats(n, os) ==
    /\ Len(os) = NDocs(n)
    /\ \A j \in 1..NDocs(n) :
        /\ os[j][1] = AgentNames[j]
        /\ Len(calls[n]) >= j
        /\ calls[n][j].phase = "thesis"
        /\ calls[n][j].prompt.docs = <<dataset[n].documents[j]>>
        /\ os[j][2] = ProponentRecord(calls[n][j].resp)

C3_ThesisSeats ==
    /\ \A n \in Items : Phase1Known(n) => Phase1Seats(n, Phase1(n))
    /\ (pc = "loop" /\ dpc = "thesis" /\ i > NDocs(k))
            => Phase1Seats(k, opening_statements)

C3_Witness ==
    \E n \in Items :
        /\ Phase1Known(n)
        /\ NDocs(n) = 2
        /\ Undecodable(calls[n][1].resp)
        /\ Decodes(calls[n][2].resp)
        /\ DictKeys(Phase1(n)) = <<"agent_1", "agent_2">>

\* The seats of QueryContext n whose Thesis call returned text that does
\* not decode.
BadSeats(n) == {j \in CallsOf(n, "thesis") : Undecodable(calls[n][j].resp)}
AnswerOf(rec) == IF rec.t = "obj" /\ Len(rec.e) > 0 /\ rec.e[1][1] = "answer"
                 THEN rec.e[1][3] ELSE <<>>

\* C4 (as claimed): when exactly one Proponent call of the Thesis phase
\* returns unparsable text, phase 1 has N entries, the entry of that seat is
\* {answer: "JSON_PARSE_ERROR", chain_of_thought: [raw]} and the others are
\* the decoded records.
C4_AsClaimed ==
    \A n \in Items :
        (Phase1Known(n) /\ Cardinality(BadSeats(n)) = 1)
        => /\ Len(Phase1(n)) = NDocs(n)
           /\ \A j \in 1..NDocs(n) :
                Phase1(n)[j][2] =
                    IF j \in BadSeats(n)
                    THEN Obj(<< <<"answer", "str", <<"JSON_PARSE_ERROR">>>>,
                                <<"chain_of_thought", "list", <<calls[n][j].resp>>>> >>)
                    ELSE json_loads(calls[n][j].resp).v

\* C4 (amended): when exactly one Proponent call of the Thesis phase
\* returns unparsable text, phase 1 has N entries, the entry of that seat is
\* {answer: "JSON PARSE ERROR", chain_of_thought: [raw]} with raw the seat's
\* response text, it is the only entry that is this record of its seat's
\* response, and the other N-1 entries are the decoded records verbatim.
C4_OneSentinel ==
    \A n \in Items :
        (Phase1Known(n) /\ Cardinality(BadSeats(n)) = 1)
        => /\ Len(Phase1(n)) = NDocs(n)
           /\ \A j \in 1..NDocs(n) :
                Phase1(n)[j][2] =
                    IF j \in BadSeats(n)
                    THEN Obj(<< <<"answer", "str", <<"JSON PARSE ERROR">>>>,
                                <<"chain_of_thought", "list", <<calls[n][j].resp>>>> >>)
                    ELSE json_loads(calls[n][j].resp).v
           /\ Cardinality({j \in 1..NDocs(n) :
                    Phase1(n)[j][2] =
                        Obj(<< <<"answer", "str", <<"JSON PARSE ERROR">>>>,
                               <<"chain_of_thought", "list", <<calls[n][j].resp>>>> >>)}) = 1

C4_Witness ==
    \E n \in Items :
        /\ Phase1Known(n)
        /\ NDocs(n) = 2
        /\ BadSeats(n) = {2}
        /\ calls[n][1].resp = P_OK
        /\ AnswerOf(Phase1(n)[2][2]) = <<"JSON PARSE ERROR">>

\* The seats of QueryContext n that the decoded challenges name.
Challenged(n, ch) == {j \in 1..NDocs(n) : ChallengeKeys[j] \in JsonKeys(ch)}

\* C5: in every Completed debate phase_2b_rebuttals has exactly the keys
\* agent_i of the seats i <= N whose agent_i_challenge is a key of the
\* challenges, one Proponent call was made in the Rebuttal phase for each
\* of them and for no other seat, and a challenge key naming no seat makes
\* no entry.
C5_RebuttalKeys ==
    \A n \in Items :
        IsCompleted(n) =>
            LET t == Ret(n).transcript
                seats == Challenged(n, t.phase_2a) IN
            /\ {t.phase_2b[j][1] : j \in 1..Len(t.phase_2b)} = {AgentNames[j] : j \in seats}
            /\ Len(t.phase_2b) = Cardinality(seats)
            /\ {calls[n][j].seat : j \in CallsOf(n, "rebuttal")} = seats
            /\ Cardinality(CallsOf(n, "rebuttal")) = Cardinality(seats)

C5_Witness ==
    \E n \in Items :
        /\ IsCompleted(n)
        /\ NDocs(n) = 2
        /\ JsonKeys(Ret(n).transcript.phase_2a) = {"agent_2_challenge", "agent_3_challenge"}
        /\ DictKeys(Ret(n).transcript.phase_2b) = <<"agent_2">>

\* C6: the persona calls of a debate come in the fixed phase order: the N
\* Proponent calls of Thesis in document order, then one Challenger call,
\* then the Proponent calls of Rebuttal for challenged seats in seat order,
\* then one Judge call, which is the last call and is made only after every
\* challenged seat had its call; a Completed debate made
\* N + 1 + |phase_2b_rebuttals| + 1 calls.
C6_PhaseOrder ==
    \A n \in Items :
        LET c == calls[n] IN
        /\ \A j \in 1..Len(c) :
            /\ j <= NDocs(n) =>
                 c[j].role = "proponent" /\ c[j].phase = "thesis" /\ c[j].seat = j
            /\ j = NDocs(n) + 1 => c[j].role = "challenger" /\ c[j].phase = "challenge"
            /\ j > NDocs(n) + 1 =>
                 \/ /\ c[j].role = "proponent" /\ c[j].phase = "rebuttal"
                    /\ c[j].seat \in Challenged(n, json_loads(c[NDocs(n) + 1].resp).v)
                    /\ c[j - 1].phase = "rebuttal" => c[j - 1].seat < c[j].seat
                 \/ /\ c[j].role = "judge" /\ c[j].phase = "final"
                    /\ j = Len(c)
                    /\ {c[m].seat : m \in (NDocs(n) + 2)..(j - 1)}
                         = Challenged(n, json_loads(c[NDocs(n) + 1].resp).v)
            /\ j < Len(c) => c[j].resp # Raises
        /\ IsCompleted(n) =>
             /\ Len(c) = NDocs(n) + 1 + Len(Ret(n).transcript.phase_2b) + 1
             /\ c[Len(c)].role = "judge"

C6_Witness ==
    \E n \in Items :
        /\ IsCompleted(n)
        /\ NDocs(n) = 2
        /\ Len(calls[n]) = 6

\* C7: once the Challenger's text has failed to decode the debate is final:
\* that call is the last persona call ever issued for the QueryContext (no
\* Rebuttal call, no Judge call, no second Challenger call) and the debate
\* has returned the error result.
C7_AbortIsFinal ==
    \A n \in Items :
        \A j \in CallsOf(n, "challenge") :
            Undecodable(calls[n][j].resp) =>
                /\ j = Len(calls[n])
                /\ CallsOf(n, "challenge") = {j}
                /\ CallsOf(n, "rebuttal") = {}
                /\ CallsOf(n, "final") = {}
                /\ IsAborted(n)
                /\ Ret(n).error = ParseFailure

C7_Witness ==
    \E n \in Items :
        /\ IsAborted(n)
        /\ NDocs(n) = 1
        /\ Undecodable(calls[n][2].resp)
        /\ k > n
        /\ pc = "done"

\* C8: when the Judge's text fails to decode, run_debate raises nothing and
\* does not abort: it returns a Completed transcript with the four fields
\* and no error, whose phase_3_final_answer is {final_answer: raw} with raw
\* the Judge's text.
C8_JudgeFallback ==
    \A n \in Items :
        \A j \in CallsOf(n, "final") :
            Undecodable(calls[n][j].resp) =>
                /\ results[n].st = "returned"
                /\ Ret(n).keys = PhaseFields
                /\ ~RetHas(Ret(n), "error")
                /\ Ret(n).transcript.phase_3 =
                      Obj(<< <<"final_answer", "str", <<calls[n][j].resp>>>> >>)

C8_Witness ==
    \E n \in Items :
        /\ IsCompleted(n)
        /\ NDocs(n) = 1
        /\ calls[n][Len(calls[n])].resp = J_BAD
        /\ Ret(n).transcript.phase_3.e[1][3] = <<J_BAD>>

\* C9 (as claimed): in every returned transcript each entry of
\* phase_1_opening_statements and of phase_2b_rebuttals has an answer and a
\* chain_of_thought field, and phase_3_final_answer has a final_answer
\* field, whatever text the personas returned: a response without the
\* required fields is never stored as is.
HasFields(rec, fields) == rec.t = "obj" /\ fields \subseteq JsonKeys(rec)

C9_AsClaimed ==
    /\ \A j \in 1..Len(opening_statements) :
            HasFields(opening_statements[j][2], {"answer", "chain_of_thought"})
    /\ \A j \in 1..Len(rebuttals) :
            HasFields(rebuttals[j][2], {"answer", "chain_of_thought"})
    /\ \A n \in Items :
        results[n].st = "returned" =>
            LET t == Ret(n).transcript IN
            /\ \A j \in 1..Len(t.phase_1) :
                    HasFields(t.phase_1[j][2], {"answer", "chain_of_thought"})
            /\ \A j \in 1..Len(t.phase_2b) :
                    HasFields(t.phase_2b[j][2], {"answer", "chain_of_thought"})
            /\ HasKey(t, "phase_3_final_answer") =>
                    HasFields(t.phase_3, {"final_answer"})

\* C10: with persona calls that are a fixed function of the prompt, runs of
\* run_debate over the same QueryContext on the same orchestrator end the
\* same way: the same returned result (same keys in the same order, same
\* records) or the same exception, after the same calls.
C10_Deterministic ==
    mocked =>
        \A n, m \in Items :
            (Ended(n) /\ Ended(m) /\ dataset[n] = dataset[m]) =>
                /\ results[n] = results[m]
                /\ calls[n] = calls[m]

C10_Witness ==
    /\ mocked
    /\ Len(dataset) = 2
    /\ dataset[1] = dataset[2]
    /\ NDocs(1) = 2
    /\ IsCompleted(1) /\ IsCompleted(2)
    /\ Len(Ret(2).transcript.phase_2b) > 0
    /\ results[1] = results[2]

\* C11: run_experiment writes one line per QueryContext, in dataset order:
\* {query_id, error: message} when run_debate raised for it, the result
\* record otherwise; a raising item does not stop the items after it, so a
\* finished loop over K QueryContexts has written exactly K lines.
C11_OneLinePerItem ==
    /\ Len(out) = Cardinality({n \in Items : Ended(n)})
    /\ \A n \in Items :
        Ended(n) =>
            /\ \A m \in 1..n : Ended(m)
            /\ out[n].query_id = dataset[n].query_id
            /\ IF results[n].st = "raised"
               THEN /\ out[n].kind = "error"
                    /\ out[n].error = results[n].msg
                    /\ out[n].error # ""
               ELSE /\ out[n].kind = "result"
                    /\ out[n].question = dataset[n].question
                    /\ out[n].full_debate_transcript = Ret(n)
    /\ (pc = "done" /\ "results" \in files) =>
            /\ \A n \in Items : Ended(n)
            /\ Len(out) = Len(dataset)

C11_Witness ==
    /\ pc = "done"
    /\ Len(dataset) = 2
    /\ results[1].st = "raised"
    /\ results[2].st = "returned"
    /\ Len(out) = 2
    /\ out[1].kind = "error" /\ out[2].kind = "result"

\* C12 (as claimed): a misconfigured persona registry (missing API key,
\* agents that cannot be constructed) neither crashes nor stops the batch
\* run: every QueryContext of the dataset still gets its line, an error
\* line where the failure struck.
C12_AsClaimed ==
    /\ pc # "crashed"
    /\ (pc = "done" /\ input_exists) => Len(out) = Len(dataset)

\* C12 (amended): a misconfigured persona registry is fatal for the whole
\* batch run.  Without the API key the import of the modules raises and
\* run_experiment never starts; when the orchestrator cannot be constructed
\* run_experiment logs and returns: in both cases no QueryContext is
\* processed, no persona is called, no results file is created and no line,
\* error line or other, is written.
C12_RegistryFatal ==
    (~api_key \/ ~agents_ok) =>
        /\ ~api_key => pc \in {"import", "crashed"} /\ files = {}
        /\ pc \in {"import", "crashed", "start", "init", "done"}
        /\ "results" \notin files
        /\ out = <<>>
        /\ k = 1 /\ dpc = "idle"
        /\ \A n \in Items : calls[n] = <<>> /\ ~Ended(n)

C12_Witness ==
    /\ pc = "done"
    /\ api_key /\ input_exists /\ ~agents_ok
    /\ Len(dataset) = 2
    /\ out = <<>>

\* C14: when the dataset file is missing run_experiment returns without
\* processing a QueryContext, without a persona call and without creating
\* the results file.
C14_MissingInput ==
    ~input_exists =>
        /\ pc \in {"import", "crashed", "start", "done"}
        /\ "results" \notin files
        /\ out = <<>>
        /\ k = 1 /\ dpc = "idle"
        /\ \A n \in Items : calls[n] = <<>> /\ ~Ended(n)

C14_Witness ==
    /\ pc = "done"
    /\ api_key /\ agents_ok /\ ~input_exists
    /\ Len(dataset) = 2
    /\ files = {"experiment_log"}

\* C13: the undecodable Challenger response is the only cause of a result
\* with an error field.  A response that does not decode in Thesis, in
\* Rebuttal or from the Judge stops nothing: when no persona call raised
\* and the Challenger returned a mapping, every seat got its Thesis call,
\* every challenged seat its Rebuttal call, the Judge was called, each
\* undecodable response was replaced by its sentinel record, and the debate
\* returned the four phase fields without an error field.
C13_OnlyAbort ==
    \A n \in Items :
        /\ (results[n].st = "returned" /\ (RetHas(Ret(n), "error") \/ Ret(n).error # ""))
            => \E j \in CallsOf(n, "challenge") : Undecodable(calls[n][j].resp)
        /\ ( /\ Ended(n)
             /\ \A j \in 1..Len(calls[n]) : calls[n][j].resp # Raises
             /\ \A j \in CallsOf(n, "challenge") : IsMapping(calls[n][j].resp) )
            => /\ IsCompleted(n)
               /\ ~RetHas(Ret(n), "error")
               /\ Ret(n).error = ""
               /\ {calls[n][j].seat : j \in CallsOf(n, "thesis")} = 1..NDocs(n)
               /\ \E c \in CallsOf(n, "challenge") :
                    {calls[n][j].seat : j \in CallsOf(n, "rebuttal")} =
                        {s \in 1..NDocs(n) :
                            ChallengeKeys[s] \in JsonKeys(json_loads(calls[n][c].resp).v)}
               /\ Cardinality(CallsOf(n, "final")) = 1
               /\ \A j \in CallsOf(n, "thesis") :
                    Undecodable(calls[n][j].resp) =>
                        \E e \in 1..Len(Ret(n).transcript.phase_1) :
                            Ret(n).transcript.phase_1[e] =
                                <<AgentNames[calls[n][j].seat],
                                  ParseErrorRecord(calls[n][j].resp)>>
               /\ \A j \in CallsOf(n, "rebuttal") :
                    Undecodable(calls[n][j].resp) =>
                        \E e \in 1..Len(Ret(n).transcript.phase_2b) :
                            Ret(n).transcript.phase_2b[e] =
                                <<AgentNames[calls[n][j].seat],
                                  ParseErrorRecord(calls[n][j].resp)>>
               /\ \A j \in CallsOf(n, "final") :
                    Undecodable(calls[n][j].resp) =>
                        Ret(n).transcript.phase_3 = FinalAnswerRecord(calls[n][j].resp)

C13_Witness ==
    \E n \in Items :
        /\ IsCompleted(n)
        /\ NDocs(n) = 2
        /\ \E j \in CallsOf(n, "thesis") :
                calls[n][j].seat = 1 /\ Undecodable(calls[n][j].resp)
        /\ \E j \in CallsOf(n, "rebuttal") :
                calls[n][j].seat = 1 /\ Undecodable(calls[n][j].resp)
        /\ \E j \in CallsOf(n, "rebuttal") : calls[n][j].seat = 2
        /\ \E j \in CallsOf(n, "final") : Undecodable(calls[n][j].resp)

\* C16 (as claimed): when the Challenger returns text that decodes to a
\* value that is not a mapping (a list, a string, a number, null),
\* run_debate returns the error result with the transcript through phase 1,
\* calls neither a Proponent for a rebuttal nor the Judge, and raises
\* nothing.
C16_AsClaimed ==
    \A n \in Items :
        ( /\ Ended(n)
          /\ \E j \in CallsOf(n, "challenge") :
                Decodes(calls[n][j].resp) /\ ~IsMapping(calls[n][j].resp) )
        => /\ results[n].st = "returned"
           /\ RetHas(Ret(n), "error")
           /\ ~RetHas(Ret(n), "phase_2a_challenges")
           /\ CallsOf(n, "rebuttal") = {}
           /\ CallsOf(n, "final") = {}

\* C15 (as claimed): the constitution bound to the orchestrator's Judge is
\* the one of agent_definitions; once bound it holds a rule that (a) weighs
\* the resilience of the arguments, not the number of agents, (b) keeps
\* every valid answer of an ambiguous question instead of collapsing to
\* one, (c) forbids mentioning the debate in the answer and (d) demands a
\* conclusive answer.
C15_AsClaimed ==
    system_message # NotBound =>
        /\ system_message = JudgeConstitution
        /\ system_message \cap {"prioritize defended arguments",
                                "synthesize, don't vote"} # {}
        /\ "protect valid minority opinions" \in system_message
        /\ "be coherent and final" \in system_message
        /\ system_message \cap {"be concise and conclusive",
                                "resolve conflicts, do not just report them"} # {}

\* C17: the transcript of a run_debate call is append-only and filled from
\* left to right.  It starts empty; its keys are always the first few of
\* phase_1_opening_statements, phase_2a_challenges, phase_2b_rebuttals,
\* phase_3_final_answer, in that order; a step of the debate only adds keys
\* after the ones present and leaves the value of every field already set
\* as it was, and the dicts the fields refer to (opening_statements,
\* challenges, rebuttals) are not touched once stored.
C17_LeftToRight ==
    /\ debate_transcript.keys =
            SubSeq(PhaseFields, 1, Len(debate_transcript.keys))
    /\ HasKey(debate_transcript, "phase_1_opening_statements")
            => debate_transcript.phase_1 = opening_statements
    /\ HasKey(debate_transcript, "phase_2a_challenges")
            => debate_transcript.phase_2a = challenges
    /\ HasKey(debate_transcript, "phase_2b_rebuttals")
            => debate_transcript.phase_2b = rebuttals

C17_StepAppends ==
    IF dpc = "idle" /\ dpc' # "idle"
    THEN debate_transcript' = EmptyTranscript
    ELSE /\ Len(debate_transcript'.keys) >= Len(debate_transcript.keys)
         /\ SubSeq(debate_transcript'.keys, 1, Len(debate_transcript.keys))
                = debate_transcript.keys
         /\ HasKey(debate_transcript, "phase_1_opening_statements")
                => debate_transcript'.phase_1 = debate_transcript.phase_1
         /\ HasKey(debate_transcript, "phase_2a_challenges")
                => debate_transcript'.phase_2a = debate_transcript.phase_2a
         /\ HasKey(debate_transcript, "phase_2b_rebuttals")
                => debate_transcript'.phase_2b = debate_transcript.phase_2b
         /\ HasKey(debate_transcript, "phase_3_final_answer")
                => debate_transcript'.phase_3 = debate_transcript.phase_3

C17_AppendOnly == [](C17_LeftToRight) /\ [][C17_StepAppends]_vars

C17_Witness ==
    /\ dpc = "idle"
    /\ debate_transcript.keys = PhaseFields
    /\ Len(debate_transcript.phase_1) = 2
    /\ Len(debate_transcript.phase_2b) = 2
    /\ debate_transcript.phase_1 # debate_transcript.phase_2b
    /\ debate_transcript.phase_1 = opening_statements

\* C18: the Challenger is called after the N Thesis calls, with a prompt
\* holding all N opening statements and all documents; the Judge is called
\* after every Rebuttal call, with a prompt whose transcript holds exactly
\* phase_1_opening_statements, phase_2a_challenges and phase_2b_rebuttals
\* (an entry for every challenged seat) and no phase_3_final_answer.
C18_PromptsFromFinalized ==
    \A n \in Items :
        /\ \A c \in CallsOf(n, "challenge") :
            LET p == calls[n][c].prompt IN
            /\ c = NDocs(n) + 1
            /\ \A j \in 1..NDocs(n) :
                    calls[n][j].phase = "thesis" /\ calls[n][j].seat = j
            /\ p.docs = dataset[n].documents
            /\ p.question = dataset[n].question
            /\ Len(p.os) = NDocs(n)
            /\ \A j \in 1..NDocs(n) :
                    p.os[j] = <<AgentNames[j], ProponentRecord(calls[n][j].resp)>>
        /\ \A f \in CallsOf(n, "final") :
            LET p == calls[n][f].prompt
                c == NDocs(n) + 1
                ch == json_loads(calls[n][c].resp).v
                due == {j \in 1..NDocs(n) : Contains(ch, ChallengeKeys[j]).has}
            IN
            /\ f = Len(calls[n])
            /\ calls[n][c].phase = "challenge"
            /\ \A j \in (c + 1)..(f - 1) : calls[n][j].phase = "rebuttal"
            /\ {calls[n][j].seat : j \in CallsOf(n, "rebuttal")} = due
            /\ p.question = dataset[n].question
            /\ p.tr.keys = <<"phase_1_opening_statements", "phase_2a_challenges",
                             "phase_2b_rebuttals">>
            /\ p.tr.phase_3 = Absent
            /\ p.tr.phase_1 = calls[n][c].prompt.os
            /\ p.tr.phase_2a = ch
            /\ Len(p.tr.phase_2b) = Cardinality(due)
            /\ \A j \in CallsOf(n, "rebuttal") :
                    \E e \in 1..Len(p.tr.phase_2b) :
                        p.tr.phase_2b[e] = <<AgentNames[calls[n][j].seat],
                                             ProponentRecord(calls[n][j].resp)>>

C18_Witness ==
    \E n \in Items :
        /\ NDocs(n) = 2
        /\ Cardinality(CallsOf(n, "rebuttal")) = 2
        /\ \E f \in CallsOf(n, "final") :
                /\ Len(calls[n][f].prompt.tr.phase_1) = 2
                /\ Len(calls[n][f].prompt.tr.phase_2b) = 2
        /\ \E c \in CallsOf(n, "challenge") :
                Len(calls[n][c].prompt.docs) = 2 /\ Len(calls[n][c].prompt.os) = 2

\* C19: a seat is a position.  Every Rebuttal call of seat s speaks as
\* agent_s about the document at position s, quotes the opening statement
\* that the Thesis call about position s stored under agent_s (never the
\* empty placeholder) and the challenge under agent_s_challenge, and its
\* record is stored under agent_s; also when documents of the QueryContext
\* share a doc_id or a text.
C19_SeatsArePositions ==
    \A n \in Items :
        /\ \A j \in CallsOf(n, "rebuttal") :
            LET s == calls[n][j].seat
                p == calls[n][j].prompt
                c == NDocs(n) + 1
                ch == json_loads(calls[n][c].resp).v
                entry == <<AgentNames[s], ProponentRecord(calls[n][j].resp)>>
                stored == IF results[n].st = "returned"
                          THEN Ret(n).transcript.phase_2b ELSE rebuttals
            IN
            /\ s \in 1..NDocs(n)
            /\ p.seat = s
            /\ p.docs = <<dataset[n].documents[s]>>
            /\ calls[n][s].phase = "thesis"
            /\ calls[n][s].prompt.docs = <<dataset[n].documents[s]>>
            /\ p.st = ProponentRecord(calls[n][s].resp)
            /\ p.st # EmptyObj
            /\ calls[n][c].phase = "challenge"
            /\ calls[n][c].prompt.os[s] = <<AgentNames[s], p.st>>
            /\ ChallengeKeys[s] \in JsonKeys(ch)
            /\ \E e \in 1..Len(ch.e) :
                    ch.e[e][1] = ChallengeKeys[s] /\ p.ch = ch.e[e][3]
            /\ (calls[n][j].resp # Raises /\ results[n].st # "raised")
                    => \E e \in 1..Len(stored) : stored[e] = entry
        /\ results[n].st = "returned" =>
                Len(Ret(n).transcript.phase_2b) = Cardinality(CallsOf(n, "rebuttal"))

C19_Witness ==
    \E n \in Items :
        /\ NDocs(n) = 2
        /\ dataset[n].documents[1].doc_id = dataset[n].documents[2].doc_id
        /\ dataset[n].documents[1].text # dataset[n].documents[2].text
        /\ IsCompleted(n)
        /\ \E j \in CallsOf(n, "rebuttal") :
                /\ calls[n][j].seat = 2
                /\ calls[n][j].prompt.docs = <<dataset[n].documents[2]>>
                /\ calls[n][j].prompt.st = ProponentRecord(calls[n][2].resp)
                /\ calls[n][1].resp # calls[n][2].resp
        /\ DictKeys(Ret(n).transcript.phase_2b) = <<"agent_1", "agent_2">>

C21_ExceptionPropagates ==
    \A n \in Items :
        /\ \A j \in 1..Len(calls[n]) :
            calls[n][j].resp = Raises =>
                /\ j = Len(calls[n])
                /\ results[n].st = "raised"
                /\ results[n].msg = CallFailed
                /\ results[n].ret = NoReturn
                /\ Len(out) >= n
                /\ out[n].kind = "error"
                /\ out[n].error = CallFailed
                /\ out[n].full_debate_transcript = NoReturn
                /\ (k = n + 1 /\ dpc = "idle") =>
                    LET c == calls[n][j] IN
                    /\ c.phase = "thesis" =>
                            /\ Len(opening_statements) = c.seat - 1
                            /\ debate_transcript = EmptyTranscript
                    /\ c.phase = "challenge" =>
                            /\ challenges = Absent
                            /\ debate_transcript.keys = <<"phase_1_opening_statements">>
                    /\ c.phase = "rebuttal" =>
                            /\ \A e \in 1..Len(rebuttals) :
                                    rebuttals[e][1] # AgentNames[c.seat]
                            /\ debate_transcript.keys =
                                    <<"phase_1_opening_statements", "phase_2a_challenges">>
                    /\ c.phase = "final" =>
                            /\ debate_transcript.phase_3 = Absent
                            /\ Len(debate_transcript.keys) = 3
        /\ (results[n].st = "raised" /\ results[n].msg = CallFailed) =>
                /\ Len(calls[n]) > 0
                /\ calls[n][Len(calls[n])].resp = Raises

C21_Witness ==
    \E n \in Items :
        /\ NDocs(n) = 2
        /\ results[n].st = "raised"
        /\ Len(calls[n]) = 5
        /\ calls[n][5].phase = "rebuttal"
        /\ calls[n][5].seat = 2
        /\ calls[n][5].resp = Raises
        /\ k = n + 1 /\ dpc = "idle"
        /\ DictKeys(rebuttals) = <<"agent_1">>

\* C22 (as claimed): in the Thesis phase a Proponent call that fails for
\* one seat, by raising or by returning text that does not decode, does
\* not end the loop: once the debate has ended every later document has
\* had its Proponent call, and the opening statements hold an entry for it.
C22_AsClaimed ==
    \A n \in Items :
        \A j \in CallsOf(n, "thesis") :
            ( /\ Ended(n)
              /\ ~Decodes(calls[n][j].resp)
              /\ calls[n][j].seat < NDocs(n) )
            => /\ \A s \in (calls[n][j].seat + 1)..NDocs(n) :
                    \E h \in CallsOf(n, "thesis") : calls[n][h].seat = s
               /\ (k = n + 1 /\ dpc = "idle") =>
                    \A s \in (calls[n][j].seat + 1)..NDocs(n) :
                        DictHas(opening_statements, AgentNames[s])

\* C23: debates do not leak into one another.  Every run_debate call starts
\* with an empty transcript and empty locals; every prompt of a debate is
\* made of its own QueryContext's question and documents; what a debate
\* returns is made of the answers to its own calls and of nothing else (so
\* it is what the same calls would give had the QueryContext been run
\* alone), whatever an earlier debate left behind when it completed,
\* aborted or raised; and a result or line once written is never changed.
C23_OwnResult ==
    \A n \in Items :
        /\ \A j \in 1..Len(calls[n]) :
            /\ calls[n][j].prompt.question = dataset[n].question
            /\ \A d \in 1..Len(calls[n][j].prompt.docs) :
                    \E e \in 1..NDocs(n) :
                        calls[n][j].prompt.docs[d] = dataset[n].documents[e]
        /\ results[n].st = "returned" =>
            LET c == NDocs(n) + 1
                last == Len(calls[n])
                p1 == [j \in 1..NDocs(n) |->
                        <<AgentNames[j], ProponentRecord(calls[n][j].resp)>>]
                p2b == [e \in 1..(last - c - 1) |->
                        <<AgentNames[calls[n][c + e].seat],
                          ProponentRecord(calls[n][c + e].resp)>>]
            IN
            /\ last >= c
            /\ IF Undecodable(calls[n][c].resp)
               THEN /\ last = c
                    /\ Ret(n) =
                        [keys |-> <<"error", "transcript">>,
                         error |-> ParseFailure,
                         transcript |->
                            [keys |-> <<"phase_1_opening_statements">>,
                             phase_1 |-> p1, phase_2a |-> Absent,
                             phase_2b |-> <<>>, phase_3 |-> Absent]]
               ELSE /\ calls[n][last].phase = "final"
                    /\ Ret(n) =
                        [keys |-> PhaseFields, error |-> "",
                         transcript |->
                            [keys |-> PhaseFields,
                             phase_1 |-> p1,
                             phase_2a |-> json_loads(calls[n][c].resp).v,
                             phase_2b |-> p2b,
                             phase_3 |-> FinalAnswerRecord(calls[n][last].resp)]]
            /\ out[n].full_debate_transcript = Ret(n)

C23_StepKeeps ==
    /\ (dpc = "idle" /\ dpc' # "idle") =>
            /\ debate_transcript' = EmptyTranscript
            /\ opening_statements' = <<>>
            /\ challenges' = Absent
            /\ rebuttals' = <<>>
    /\ Len(out') >= Len(out)
    /\ SubSeq(out', 1, Len(out)) = out
    /\ \A n \in Items : Ended(n) => results'[n] = results[n] /\ calls'[n] = calls[n]

C23_NoLeak == [](C23_OwnResult) /\ [][C23_StepKeeps]_vars

C23_Witness ==
    /\ Len(dataset) = 2
    /\ NDocs(1) = 1 /\ NDocs(2) = 0
    /\ IsAborted(1)
    /\ Len(Ret(1).transcript.phase_1) = 1
    /\ IsCompleted(2)
    /\ Ret(2).transcript.phase_1 = <<>>
    /\ Len(out) = 2
    /\ out[1].full_debate_transcript = Ret(1)

\* C24 (as claimed): an aborted debate is written as a result record whose
\* final_answer_object is the empty record and whose full_debate_transcript
\* is the {error, transcript} result; for a completed debate
\* final_answer_object is phase_3_final_answer; and final_answer_object is
\* the empty record exactly when the debate aborted.  (Debates whose
\* Challenger returned a mapping or text that does not decode.)
C24_AsClaimed ==
    \A n \in Items :
        ( /\ results[n].st = "returned"
          /\ \A j \in CallsOf(n, "challenge") :
                IsMapping(calls[n][j].resp) \/ Undecodable(calls[n][j].resp) ) =>
            /\ out[n].kind = "result"
            /\ out[n].full_debate_transcript = Ret(n)
            /\ IsAborted(n) => out[n].final_answer_object = EmptyObj
            /\ IsCompleted(n) =>
                    out[n].final_answer_object = Ret(n).transcript.phase_3
            /\ out[n].final_answer_object = EmptyObj <=> IsAborted(n)

====
